---- MODULE Spec2Model ----
(***************************************************************************)
(* Model of src/app.py: the preschool assessment page.                     *)
(*                                                                         *)
(*   safe_generate_content   primary model, then backup model              *)
(*   analyze_single_image    Image.open, then up to max_retries attempts   *)
(*   process_images_parallel 2-thread pool, as_completed aggregation       *)
(*   main page               flatten into session state, group by name     *)
(*                                                                         *)
(* Strings are sequences of tokens [t, v]; "429" in s is the presence of *)
(* the token "429".  Chinese literals of the source are written in ASCII.  *)
(***************************************************************************)
EXTENDS Integers, Sequences, FiniteSets, TLC

\* ------------------------------------------------------------------ bounds
\* files uploaded during one session, over all batches
MaxFiles == 3
\* records in the argument of the group-by exploration
MaxRecords == 3
\* scores of a child in the argument of the flatten exploration
MaxScores == 5

\* ------------------------------------------------------- program constants
max_retries == 3
\* faulty variant: a larger pool
max_workers_8 == 4 + 4
max_workers == 2

\* --------------------------------------------------------------- strings
Tok(s) == [t |-> s, v |-> 0]
FileName(i) == [t |-> "file", v |-> i]

\* "429" in s
Has429(s) == \E k \in DOMAIN s : s[k].t = "429"

\* s.replace(tok, "")
RECURSIVE Remove(_, _)
Remove(s, tok) ==
    IF s = <<>> THEN <<>>
    ELSE IF Head(s).t = tok THEN Remove(Tail(s), tok)
    ELSE <<Head(s)>> \o Remove(Tail(s), tok)

\* ------------------------------------------- decoded replies (test data)
\* What the sheet photographed in file i decodes to.  Three sheets, reused
\* cyclically; the decoded data carries no file name.  On the third sheet
\* the model read the title of the name column as a column label.
Data(i) ==
    CASE i % 3 = 1 ->
           [area |-> "Language", headers |-> <<"H1", "H2", "H3", "H4">>,
            students |-> << [name |-> "Amy", scores |-> <<"A", "R", "D", "N">>,
                             note |-> "likes stories"] >>]
      [] i % 3 = 2 ->
           [area |-> "Math", headers |-> <<"H1", "H2", "H3", "H4">>,
            students |-> << [name |-> "Ben", scores |-> <<"R", "R", "A", "A">>,
                             note |-> "counts"],
                            [name |-> "Amy", scores |-> <<"D", "D">>,
                             note |-> "needs help"] >>]
      [] OTHER ->
           [area |-> "Art", headers |-> <<"child_name", "H2", "H3">>,
            students |-> << [name |-> "Ben", scores |-> <<"N", "A", "R">>,
                             note |-> "paints"] >>]

\* --------------------------------------------------- the remote models
\* One call of model.generate_content either returns a text or raises.
\* Texts the model can reply with for file i.
ReplyKinds == {"json", "fenced_json", "fenced", "junk0", "junk429"}

ReplyText(kind, i) ==
    CASE kind = "json"        -> << [t |-> "json", v |-> i] >>
      [] kind = "fenced_json" -> << Tok("[fence-json]"), [t |-> "json", v |-> i], Tok("[fence]") >>
      [] kind = "fenced"      -> << Tok("[fence]"), [t |-> "json", v |-> i], Tok("[fence]") >>
      [] kind = "junk0"       -> << [t |-> "junk", v |-> 0] >>
      [] OTHER                -> << [t |-> "junk", v |-> 429] >>

\* Errors a call can raise: a rate limit (HTTP 429), another remote failure,
\* and another remote failure whose message happens to contain "429".
ErrorKinds == {"RateLimited", "Other", "Other429"}

ErrorText(kind) ==
    CASE kind = "RateLimited" -> << Tok("429"), Tok(" Resource has been exhausted") >>
      [] kind = "Other"       -> << Tok("500"), Tok(" Internal error") >>
      [] OTHER                -> << Tok("503"), Tok(" unavailable, request id 1"),
                                    Tok("429"), Tok("0") >>

Returns(kind, i) == [ok |-> TRUE, kind |-> kind, val |-> ReplyText(kind, i)]
Raises(kind) == [ok |-> FALSE, kind |-> kind, val |-> ErrorText(kind)]
NotCalled == [ok |-> FALSE, kind |-> "unused", val |-> <<>>]

\* The behaviour of the two models during one attempt for file i.  The
\* primary model's error text is only printed, so one text per kind is enough.
Envs(i) ==
    { [primary |-> Returns(k, i), backup |-> NotCalled] : k \in ReplyKinds }
    \cup
    { [primary |-> Raises(p), backup |-> b] :
        p \in {"RateLimited", "Other"},
        b \in { Returns(k, i) : k \in ReplyKinds } \cup { Raises(k) : k \in ErrorKinds } }

\* ------------------------------------------------- safe_generate_content
\* faulty variant: no fallback, the primary model's error is raised
safe_generate_content_noBackup(primary, backup) ==
    IF primary.ok
    THEN [raised |-> FALSE, val |-> primary.val, calls |-> <<"gemini-3.0-pro">>]
    ELSE [raised |-> TRUE, val |-> <<Tok("all models failed. reason: ")>> \o primary.val,
          calls |-> <<"gemini-3.0-pro">>]

\* faulty variant: when both models fail the primary model's error is reported
safe_generate_content_primaryError(primary, backup) ==
    IF primary.ok
    THEN [raised |-> FALSE, val |-> primary.val, calls |-> <<"gemini-3.0-pro">>]
    ELSE IF backup.ok
    THEN [raised |-> FALSE, val |-> backup.val,
          calls |-> <<"gemini-3.0-pro", "gemini-1.5-flash">>]
    ELSE [raised |-> TRUE, val |-> <<Tok("all models failed. reason: ")>> \o primary.val,
          calls |-> <<"gemini-3.0-pro", "gemini-1.5-flash">>]

\* faulty variant: the primary model is tried a second time before the backup
safe_generate_content_twice(primary, backup) ==
    IF primary.ok
    THEN [raised |-> FALSE, val |-> primary.val, calls |-> <<"gemini-3.0-pro">>]
    ELSE IF backup.ok
    THEN [raised |-> FALSE, val |-> backup.val,
          calls |-> <<"gemini-3.0-pro", "gemini-3.0-pro", "gemini-1.5-flash">>]
    ELSE [raised |-> TRUE, val |-> <<Tok("all models failed. reason: ")>> \o backup.val,
          calls |-> <<"gemini-3.0-pro", "gemini-3.0-pro", "gemini-1.5-flash">>]

\* primary, backup: what each model does if it is called.
safe_generate_content(primary, backup) ==
    IF primary.ok
    THEN [raised |-> FALSE, val |-> primary.val, calls |-> <<"gemini-3.0-pro">>]
    ELSE IF backup.ok
    THEN [raised |-> FALSE, val |-> backup.val,
          calls |-> <<"gemini-3.0-pro", "gemini-1.5-flash">>]
    ELSE [raised |-> TRUE, val |-> <<Tok("all models failed. reason: ")>> \o backup.val,
          calls |-> <<"gemini-3.0-pro", "gemini-1.5-flash">>]

\* -------------------------------------------------- JSON cleaning, parsing
\* lines 137-140
CleanJSON(text_result) ==
    IF \E k \in DOMAIN text_result : text_result[k].t = "[fence-json]"
    THEN Remove(Remove(text_result, "[fence-json]"), "[fence]")
    ELSE IF \E k \in DOMAIN text_result : text_result[k].t = "[fence]"
    THEN Remove(text_result, "[fence]")
    ELSE text_result

\* str(JSONDecodeError): the message ends in the position of the offending
\* character.
JsonErrorText(pos) ==
    << Tok("Expecting value: line 1 column 1 (char "), Tok(pos), Tok(")") >>

\* What a narrative reply decodes to: an object with both fields, an
\* object without the suggestion, or a JSON value that is not an object.
CommentValue(kind, v) ==
    CASE kind = "comment" -> [observation |-> [t |-> "observed", v |-> v],
                              suggestion |-> [t |-> "suggested", v |-> v]]
      [] kind = "partial" -> [observation |-> [t |-> "observed", v |-> v]]
      [] OTHER            -> [json_array |-> v]

DecodableKinds == {"json", "comment", "partial", "nonobject"}

Decode(token) ==
    IF token.t = "json" THEN Data(token.v) ELSE CommentValue(token.t, token.v)

\* json.loads(text.strip()) (lines 142, 203): the decoded value, or the error.
json_loads(text) ==
    IF Len(text) = 1 /\ text[1].t \in DecodableKinds
    THEN [raised |-> FALSE, data |-> Decode(text[1]), val |-> <<>>]
    ELSE LET pos == IF \E k \in DOMAIN text : text[k].t = "junk" /\ text[k].v = 429
                    THEN "429" ELSE "0"
         IN  [raised |-> TRUE, data |-> [area |-> "none"], val |-> JsonErrorText(pos)]

\* --------------------------------------------------- analyze_single_image
\* One iteration of the for loop: the try body (lines 132-142).  kind is the
\* kind of error that reached the except clause ("ok" when none did).
TryAttempt(env) ==
    LET g == safe_generate_content(env.primary, env.backup)
        p == json_loads(CleanJSON(g.val))
    IN  IF g.raised
        THEN [raised |-> TRUE, last_error |-> g.val, calls |-> g.calls,
              data |-> [area |-> "none"], kind |-> env.backup.kind]
        ELSE [raised |-> p.raised, last_error |-> p.val, calls |-> g.calls,
              data |-> p.data,
              kind |-> IF p.raised THEN "InvalidResponse" ELSE "ok"]

\* faulty variant: the except branch never retries
Retryable_never(last_error) == FALSE

\* line 146: the except branch retries
Retryable(last_error) == Has429(last_error)

\* faulty variant: a constant delay
Backoff_flat(attempt) == 2

\* line 147: seconds slept after failed attempt number attempt (0-based)
Backoff(attempt) == 2 * (attempt + 1)

\* lines 131-152.  script[attempt+1] is the models' behaviour in that
\* attempt.  acc collects what the call did: trace has a 0 for every attempt
\* and the seconds of every time.sleep, in order of execution.
RECURSIVE RetryLoop(_, _, _, _)
RetryLoop(script, attempt, last_error, acc) ==
    IF attempt >= max_retries
    THEN [acc EXCEPT !.outcome =
             [success |-> FALSE,
              error |-> << Tok("retried "), Tok("3"), Tok(" times, failed. reason: ") >>
                        \o last_error]]
    ELSE LET a == TryAttempt(script[attempt + 1])
             acc1 == [acc EXCEPT !.attempts = @ + 1,
                                 !.calls = @ \o a.calls,
                                 !.kinds = Append(@, a.kind),
                                 !.last_error = IF a.raised THEN a.last_error ELSE @,
                                 !.trace = Append(@, 0)]
         IN  IF ~a.raised
             THEN [acc1 EXCEPT !.outcome = [success |-> TRUE, data |-> a.data]]
             ELSE IF Retryable(a.last_error)
             THEN RetryLoop(script, attempt + 1, a.last_error,
                            [acc1 EXCEPT !.delays = Append(@, Backoff(attempt)),
                                         !.trace = Append(@, Backoff(attempt))])
             ELSE [acc1 EXCEPT !.outcome = [success |-> FALSE, error |-> a.last_error]]

\* lines 92-152.  can_open: whether Image.open accepts the file (line 93,
\* outside every try).  exception = TRUE: the call raised.
analyze_single_image(image_file, can_open, script) ==
    LET acc0 == [exception |-> FALSE, outcome |-> [success |-> FALSE, error |-> <<>>],
                 attempts |-> 0, delays |-> <<>>, calls |-> <<>>, kinds |-> <<>>,
                 last_error |-> <<>>, trace |-> <<>>]
    IN  IF ~can_open
        THEN [acc0 EXCEPT !.exception = TRUE,
                          !.outcome = [success |-> FALSE,
                                       error |-> <<Tok("cannot identify image file")>>]]
        ELSE RetryLoop(script, 0, <<>>, acc0)

\* Behaviours of the models over the attempts of one call: every script is
\* max_retries attempts long; a call consumes a prefix of it.
Scripts(i) == [1..max_retries -> Envs(i)]

\* What a worker call on file i can hand to its future: the call's result
\* record, or the exception it raised; with the kind and the text of the
\* last error the call met.
Future(r) ==
    [exception |-> r.exception, outcome |-> r.outcome,
     cause |-> IF r.kinds = <<>> THEN "none" ELSE r.kinds[Len(r.kinds)],
     last_error |-> r.last_error]

AnalyzeReturns ==
    [i \in 1..MaxFiles |->
        { Future(analyze_single_image(i, c, s)) : c \in BOOLEAN, s \in Scripts(i) }]

\* The same calls with the number of attempts and of remote model calls each
\* made.
AnalyzeCalls ==
    [i \in 1..MaxFiles |->
        { LET r == analyze_single_image(i, c, s)
          IN  [future |-> Future(r), attempts |-> r.attempts, ncalls |-> Len(r.calls)] :
            c \in BOOLEAN, s \in Scripts(i) }]

\* ------------------------------------------------------ main page: flatten
\* dict.get(key, default)
Get(d, key, default) == IF key \in DOMAIN d THEN d[key] ELSE default

\* f"indicator{i+1}" (line 312)
Placeholder(n) == <<"Indicator1", "Indicator2", "Indicator3", "Indicator4">>[n]

\* faulty variant: the label is always synthesized
HName_placeholder(headers, i) == Placeholder(i + 1)

\* line 312; i is the 0-based index of a score
HName(headers, i) == IF i < Len(headers) THEN headers[i + 1] ELSE Placeholder(i + 1)

\* lines 310-314: the (0-based) score positions that are kept
Kept(scores) == { i \in 0..(Len(scores) - 1) : i < 4 }

\* lines 309-314: details, in score order
Details(headers, scores) ==
    [k \in 1..Cardinality(Kept(scores)) |->
        [idx |-> HName(headers, k - 1), score |-> scores[k]]]

\* lines 307-315: the row dict; a later assignment to a key replaces the
\* earlier one.
RECURSIVE RowAssign(_, _)
RowAssign(row, details) ==
    IF details = <<>> THEN row
    ELSE RowAssign((Head(details).idx :> Head(details).score) @@ row, Tail(details))

FlatRow(area, headers, s) ==
    LET row0 == ("child_name" :> Get(s, "name", "None")) @@ ("area" :> area)
        row1 == RowAssign(row0, Details(headers, Get(s, "scores", <<>>)))
    IN  ("note" :> Get(s, "note", "None")) @@ row1

\* lines 317-322
RawRecord(area, headers, s) ==
    [name |-> Get(s, "name", "None"), area |-> area,
     details |-> Details(headers, Get(s, "scores", <<>>)),
     note |-> Get(s, "note", "None")]

\* lines 303-322 for one result: one row and one record per student
FlattenOne(res) ==
    LET area == Get(res, "area", "unknown")
        headers == Get(res, "headers", <<"I1", "I2", "I3", "I4">>)
        students == Get(res, "students", <<>>)
    IN  [all_data |-> [k \in DOMAIN students |-> FlatRow(area, headers, students[k])],
         raw_records |-> [k \in DOMAIN students |-> RawRecord(area, headers, students[k])]]

\* lines 301-322: results are flattened in the order of the results list
RECURSIVE Flatten(_)
Flatten(results) ==
    IF results = <<>> THEN [all_data |-> <<>>, raw_records |-> <<>>]
    ELSE LET h == FlattenOne(Head(results))
             t == Flatten(Tail(results))
         IN  [all_data |-> h.all_data \o t.all_data,
              raw_records |-> h.raw_records \o t.raw_records]

\* The fixed columns of a row; the other keys are its indicator slots.
FixedColumns == {"child_name", "area", "note"}
IndicatorSlots(row) == DOMAIN row \ FixedColumns

\* ------------------------------------------------ report page: group by
\* faulty variant: a record of a known child is put before the child's earlier ones
GroupAdd_front(grouped, r) ==
    IF \E k \in DOMAIN grouped : grouped[k].name = r.name
    THEN LET k == CHOOSE j \in DOMAIN grouped : grouped[j].name = r.name
         IN  [grouped EXCEPT ![k].records = <<r>> \o @]
    ELSE Append(grouped, [name |-> r.name, records |-> <<r>>])

\* lines 351-354: one step of the loop over raw_records.  The dict keeps
\* insertion order: grouped is the sequence of its (name, records) items.
GroupAdd(grouped, r) ==
    IF \E k \in DOMAIN grouped : grouped[k].name = r.name
    THEN LET k == CHOOSE j \in DOMAIN grouped : grouped[j].name = r.name
         IN  [grouped EXCEPT ![k].records = Append(@, r)]
    ELSE Append(grouped, [name |-> r.name, records |-> <<r>>])

\* lines 350-354
RECURSIVE GroupLoop(_, _)
GroupLoop(grouped, records) ==
    IF records = <<>> THEN grouped
    ELSE GroupLoop(GroupAdd(grouped, Head(records)), Tail(records))

GroupByName(records) == GroupLoop(<<>>, records)

\* ------------------------------------------ generate_teacher_comments_fast
\* Texts the model can reply with to the narrative prompt: a well-formed
\* comment, bare or fenced, and three kinds of unusable text.
NarrativeReplies ==
    { << [t |-> "comment", v |-> 1] >>,
      << Tok("[fence-json]"), [t |-> "comment", v |-> 1], Tok("[fence]") >>,
      << [t |-> "junk", v |-> 0] >>,
      << [t |-> "partial", v |-> 1] >>,
      << [t |-> "nonobject", v |-> 1] >> }

NarrativeEnvs ==
    { [primary |-> [ok |-> TRUE, kind |-> "text", val |-> t], backup |-> NotCalled] :
        t \in NarrativeReplies }
    \cup
    { [primary |-> Raises("Other"), backup |-> b] :
        b \in { [ok |-> TRUE, kind |-> "text", val |-> t] : t \in NarrativeReplies }
              \cup { Raises("RateLimited") } }

\* line 205
DefaultComment ==
    [observation |-> Tok("stable at school, please keep in touch"),
     suggestion |-> Tok("company is the best gift")]

\* lines 185-205.  env: what the two models do when asked.  The bare except
\* catches the failed call and the undecodable text; whatever json.loads
\* decodes is returned as it is.
generate_teacher_comments_fast(student_name, records, env) ==
    LET g == safe_generate_content(env.primary, env.backup)
        text == Remove(Remove(g.val, "[fence-json]"), "[fence]")
        p == json_loads(text)
    IN  IF g.raised \/ p.raised
        THEN [comments |-> DefaultComment, calls |-> g.calls]
        ELSE [comments |-> p.data, calls |-> g.calls]

\* ----------------------------------------------------- create_word_report
\* lines 252-265: the table rows of one child
RECURSIVE TableRows(_)
TableRows(records) ==
    IF records = <<>> THEN <<>>
    ELSE LET r == Head(records)
         IN  << [kind |-> "area", label |-> r.area, score |-> ""] >>
             \o [k \in DOMAIN r.details |->
                    [kind |-> "item", label |-> r.details[k].idx,
                     score |-> r.details[k].score]]
             \o TableRows(Tail(records))

\* faulty variant: a page break before every child
PageBreak_always(idx) == TRUE

\* line 230; idx is 0-based
PageBreak(idx) == idx > 0

\* lines 272, 274: comments['observation'], comments['suggestion']
Subscriptable(comments) ==
    "observation" \in DOMAIN comments /\ "suggestion" \in DOMAIN comments

\* lines 226-279 for the child at position k, given what the narrative
\* writer returned for it
Section(grouped, k, comments) ==
    [page_break |-> PageBreak(k - 1),
     name |-> grouped[k].name,
     rows |-> TableRows(grouped[k].records),
     observation |-> comments.observation,
     suggestion |-> comments.suggestion]

\* lines 207-286 given, per child, what generate_teacher_comments_fast
\* returned (written[k].comments) and the model calls it made.  The loop
\* stops at the first child whose comments cannot be subscripted: the
\* exception leaves create_word_report.
RECURSIVE WriteSections(_, _, _, _)
WriteSections(grouped, written, k, acc) ==
    IF k > Len(grouped) THEN acc
    ELSE LET acc1 == [acc EXCEPT !.calls = @ \o written[k].calls,
                                 !.requests = @ + 1]
         IN  IF Subscriptable(written[k].comments)
             THEN WriteSections(grouped, written, k + 1,
                     [acc1 EXCEPT !.doc = Append(@, Section(grouped, k, written[k].comments))])
             ELSE [acc1 EXCEPT !.raised = TRUE]

WriteReport(grouped, written) ==
    WriteSections(grouped, written, 1,
                  [raised |-> FALSE, doc |-> <<>>, calls |-> <<>>, requests |-> 0])

\* lines 207-286.  narr[k]: what the two models do when asked about the
\* child at position k.
create_word_report(grouped_data, narr) ==
    WriteReport(grouped_data,
        [k \in DOMAIN grouped_data |->
            generate_teacher_comments_fast(grouped_data[k].name,
                                           grouped_data[k].records, narr[k])])

\* What the narrative writer can return for a child.
CommentReturns ==
    { [comments |-> generate_teacher_comments_fast("", <<>>, e).comments, calls |-> <<>>] :
        e \in NarrativeEnvs }

\* ================================================================ state
VARIABLES
    pc,           \* position of the page script
    files,        \* the uploaded batch, in submission order (file ids)
    uploaded,     \* files uploaded so far in the session
    fstate,       \* per file of the batch: "queued", "running", "finished"
    future,       \* per finished file: what its future holds
    collected,    \* files the as_completed loop has handled
    done,         \* line 165
    total,        \* line 164
    results,      \* line 155
    errors,       \* line 156
    resSrc,       \* per entry of results, the file f of line 168
    raw_records,  \* st.session_state['raw_records']
    class_df,     \* st.session_state['class_df'], as its sequence of rows
    grouped,      \* line 350, local to a run of the report page
    generated_doc,\* st.session_state['generated_doc'], <<"none">> when not set
    has_key,      \* "GEMINI_API_KEY" in st.secrets
    arg,          \* function-level exploration: the argument
    ret           \* function-level exploration: the value returned

vars == <<pc, files, uploaded, fstate, future, collected, done, total, results,
          errors, resSrc, raw_records, class_df, grouped, generated_doc,
          has_key, arg, ret>>

batchVars == <<files, fstate, future, collected, done, total, results, errors, resSrc>>
sessionVars == <<raw_records, class_df>>
fnVars == <<has_key, arg, ret>>
NoDoc == [present |-> FALSE, doc |-> <<>>]

NoCall == [fn |-> "none"]
NoFuture ==
    [exception |-> FALSE, outcome |-> [success |-> FALSE, error |-> <<>>],
     cause |-> "none", last_error |-> <<>>]

FileIds == 1..MaxFiles
InBatch == { files[k] : k \in DOMAIN files }
Running == { i \in InBatch : fstate[i] = "running" }

\* lines 31-33, before any upload
Init ==
    /\ pc = "idle"
    /\ files = <<>>
    /\ uploaded = 0
    /\ fstate = [i \in FileIds |-> "none"]
    /\ future = [i \in FileIds |-> NoFuture]
    /\ collected = {}
    /\ done = 0
    /\ total = 0
    /\ results = <<>>
    /\ errors = <<>>
    /\ resSrc = <<>>
    /\ raw_records = <<>>
    /\ class_df = <<>>
    /\ grouped = <<>>
    /\ generated_doc = NoDoc
    /\ has_key \in BOOLEAN
    /\ arg = NoCall
    /\ ret = NoCall

\* faulty variant: the key check is skipped
ApiOnline_unchecked == TRUE

\* lines 48-53: every run of the script passes the key check before the menu
ApiOnline == has_key

\* a run of the script may start a new operation
Ready == pc \in {"idle", "raised", "report_failed"} /\ ApiOnline

\* lines 51-53: st.error, st.stop
Stop ==
    /\ pc = "idle"
    /\ ~ApiOnline
    /\ pc' = "stopped"
    /\ UNCHANGED <<batchVars, uploaded, sessionVars, grouped,
                   generated_doc, fnVars>>

\* ------------------------------------------------ process_images_parallel
\* lines 296-297, 155-165: the button starts a batch of n files; all are
\* submitted to the pool.
StartBatch(n) ==
    /\ Ready
    /\ n >= 1
    /\ uploaded + n <= MaxFiles
    /\ files' = [k \in 1..n |-> uploaded + k]
    /\ uploaded' = uploaded + n
    /\ fstate' = [i \in FileIds |->
                    IF i \in (uploaded + 1)..(uploaded + n) THEN "queued" ELSE "none"]
    /\ future' = [i \in FileIds |-> NoFuture]
    /\ collected' = {}
    /\ done' = 0
    /\ total' = n
    /\ results' = <<>>
    /\ errors' = <<>>
    /\ resSrc' = <<>>
    /\ grouped' = <<>>
    /\ pc' = "collecting"
    /\ UNCHANGED <<sessionVars, generated_doc, fnVars>>

\* line 159: a free worker thread takes the oldest queued call
WorkerStart(i) ==
    /\ pc \in {"collecting", "unwinding"}
    /\ i \in InBatch
    /\ fstate[i] = "queued"
    /\ \A j \in InBatch : fstate[j] = "queued" => i <= j
    /\ Cardinality(Running) < max_workers
    /\ fstate' = [fstate EXCEPT ![i] = "running"]
    /\ UNCHANGED <<pc, files, uploaded, future, collected, done, total, results,
                   errors, resSrc, sessionVars, grouped,
                   generated_doc, fnVars>>

\* lines 92-152 run to their end in a worker thread
WorkerFinish(i) ==
    /\ pc \in {"collecting", "unwinding"}
    /\ i \in InBatch
    /\ fstate[i] = "running"
    /\ \E r \in AnalyzeReturns[i] :
          future' = [future EXCEPT ![i] = r]
    /\ fstate' = [fstate EXCEPT ![i] = "finished"]
    /\ UNCHANGED <<pc, files, uploaded, collected, done, total, results,
                   errors, resSrc, sessionVars, grouped,
                   generated_doc, fnVars>>

\* faulty variant: the counter is not advanced
Progress_stuck(d) == d

\* line 169
Progress(d) == d + 1

\* faulty variant: the error text is dropped from the entry
ErrorEntry_nameOnly(i, error) == <<FileName(i), Tok(": ")>>

\* line 177
ErrorEntry(i, error) == <<FileName(i), Tok(": ")>> \o error

\* lines 167-179: one iteration of the as_completed loop, for a finished
\* future; future.result() re-raises the call's exception (line 173).
Collect(i) ==
    /\ pc = "collecting"
    /\ i \in InBatch \ collected
    /\ fstate[i] = "finished"
    /\ collected' = collected \cup {i}
    /\ done' = Progress(done)
    /\ IF future[i].exception
       THEN /\ pc' = "unwinding"
            /\ UNCHANGED <<results, errors, resSrc>>
       ELSE /\ pc' = pc
            /\ IF future[i].outcome.success
               THEN /\ results' = Append(results, future[i].outcome.data)
                    /\ resSrc' = Append(resSrc, i)
                    /\ errors' = errors
               ELSE /\ errors' = Append(errors, ErrorEntry(i, future[i].outcome.error))
                    /\ UNCHANGED <<results, resSrc>>
    /\ UNCHANGED <<files, uploaded, fstate, future, total, sessionVars, grouped,
                   generated_doc, fnVars>>

\* line 159, leaving the with block on an exception: the pool is shut down
\* waiting for every submitted call, then the exception leaves the function
\* and ends the script run.
Raise ==
    /\ pc = "unwinding"
    /\ \A i \in InBatch : fstate[i] = "finished"
    /\ pc' = "raised"
    /\ UNCHANGED <<batchVars, uploaded, sessionVars, grouped,
                   generated_doc, fnVars>>

\* lines 181-183
Return ==
    /\ pc = "collecting"
    /\ collected = InBatch
    /\ pc' = "returned"
    /\ UNCHANGED <<batchVars, uploaded, sessionVars, grouped,
                   generated_doc, fnVars>>

\* faulty variant: the new rows replace the stored ones
SessionExtend_replace(stored, new) == new

\* lines 326, 331: list.extend, pd.concat(ignore_index=True)
SessionExtend(stored, new) == stored \o new

\* lines 299-333: the successes are flattened and appended to the session
Store ==
    /\ pc = "returned"
    /\ IF results # <<>>
       THEN LET f == Flatten(results)
            IN  /\ raw_records' = SessionExtend(raw_records, f.raw_records)
                /\ class_df' = SessionExtend(class_df, f.all_data)
       ELSE UNCHANGED sessionVars
    /\ pc' = "idle"
    /\ UNCHANGED <<batchVars, uploaded, grouped,
                   generated_doc, fnVars>>

\* lines 349-356: the report page groups the stored records
Report ==
    /\ Ready
    /\ raw_records # <<>>
    /\ grouped' = GroupByName(raw_records)
    /\ pc' = "idle"
    /\ UNCHANGED <<batchVars, uploaded, sessionVars, generated_doc, fnVars>>

\* What create_word_report can hand back for this grouping: the document,
\* or the exception.
ReportReturns(g) ==
    { LET w == WriteReport(g, written)
      IN  [raised |-> w.raised, doc |-> IF w.raised THEN <<>> ELSE w.doc] :
        written \in [1..Len(g) -> CommentReturns] }

\* lines 349-362: the button on the report page.  The run regroups the
\* records and writes the report; the document is stored when
\* create_word_report returns, and the run ends there when it raises.
Generate ==
    /\ Ready
    /\ raw_records # <<>>
    /\ grouped' = GroupByName(raw_records)
    /\ \E w \in ReportReturns(GroupByName(raw_records)) :
          IF w.raised
          THEN pc' = "report_failed" /\ generated_doc' = generated_doc
          ELSE pc' = "idle" /\ generated_doc' = [present |-> TRUE, doc |-> w.doc]
    /\ UNCHANGED <<batchVars, uploaded, sessionVars, fnVars>>

Next ==
    \/ \E n \in 1..MaxFiles : StartBatch(n)
    \/ \E i \in FileIds : WorkerStart(i)
    \/ \E i \in FileIds : WorkerFinish(i)
    \/ \E i \in FileIds : Collect(i)
    \/ Raise
    \/ Return
    \/ Store
    \/ Report
    \/ Generate
    \/ Stop

Spec == Init /\ [][Next]_vars

\* ============================================== function-level exploration
\* The pure functions of the program applied to arguments drawn from
\* bounded sets; the page does not run.
AllLabels == <<"H1", "H2", "H3", "H4", "H5">>
AllScores == <<"A", "R", "D", "N", "A", "R">>

HeaderLists ==
    { SubSeq(AllLabels, 1, n) : n \in 0..5 }
    \cup { <<"H1", "H1">>, <<"H1", "H2", "H1", "H2">>, <<"note", "H2", "H3">> }

ScoreLists == { SubSeq(AllScores, 1, n) : n \in 0..MaxScores }

FlattenArgs ==
    { [area |-> "Language", headers |-> h,
       students |-> << [name |-> "Amy", scores |-> sc, note |-> "n"] >>] :
         h \in HeaderLists, sc \in ScoreLists }
    \cup
    { [area |-> "Language",
       students |-> << [name |-> "Amy", scores |-> sc, note |-> "n"] >>] :
         sc \in ScoreLists }
    \cup
    { [headers |-> h, students |-> << [name |-> "Amy"], [note |-> "n", scores |-> <<"A">>] >>] :
         h \in HeaderLists }

GroupRecordSet ==
    { [name |-> n, area |-> a, details |-> <<>>, note |-> "n"] :
        n \in {"Amy", "Ben", "None"}, a \in {"Language", "Math"} }

GroupArgs == UNION { [1..n -> GroupRecordSet] : n \in 0..MaxRecords }

\* what a model does when called: any reply, any error
ModelOutcomes == { Returns(k, 1) : k \in ReplyKinds } \cup { Raises(k) : k \in ErrorKinds }

\* groupings of one child and of two children
ReportArgs ==
    { GroupByName(Flatten(rs).raw_records) :
        rs \in { <<Data(1)>>, <<Data(1), Data(2)>>, <<Data(2), Data(3)>> } }

InitFn ==
    /\ pc = "idle"
    /\ files = <<>>
    /\ uploaded = 0
    /\ fstate = [i \in FileIds |-> "none"]
    /\ future = [i \in FileIds |-> NoFuture]
    /\ collected = {}
    /\ done = 0
    /\ total = 0
    /\ results = <<>>
    /\ errors = <<>>
    /\ resSrc = <<>>
    /\ raw_records = <<>>
    /\ class_df = <<>>
    /\ grouped = <<>>
    /\ generated_doc = NoDoc
    /\ has_key = TRUE
    /\ ret = NoCall
    /\ \/ \E c \in BOOLEAN, s \in Scripts(1) :
            arg = [fn |-> "analyze_single_image", can_open |-> c, script |-> s]
       \/ \E res \in FlattenArgs : arg = [fn |-> "flatten", res |-> res]
       \/ \E rs \in GroupArgs : arg = [fn |-> "group", records |-> rs]
       \/ \E p \in ModelOutcomes, b \in ModelOutcomes :
            arg = [fn |-> "safe_generate_content", primary |-> p, backup |-> b]
       \/ \E g \in ReportArgs :
            \E n1 \in [1..Len(g) -> NarrativeEnvs], n2 \in [1..Len(g) -> NarrativeEnvs] :
               arg = [fn |-> "create_word_report", grouped |-> g, narr1 |-> n1, narr2 |-> n2]

CallAnalyze ==
    /\ arg.fn = "analyze_single_image"
    /\ ret = NoCall
    /\ ret' = [fn |-> arg.fn, r |-> analyze_single_image(1, arg.can_open, arg.script)]
    /\ UNCHANGED <<pc, batchVars, uploaded, sessionVars, grouped,
                   generated_doc, has_key, arg>>

CallFlatten ==
    /\ arg.fn = "flatten"
    /\ ret = NoCall
    /\ ret' = [fn |-> arg.fn, r |-> Flatten(<<arg.res>>)]
    /\ UNCHANGED <<pc, batchVars, uploaded, sessionVars, grouped,
                   generated_doc, has_key, arg>>

CallGroup ==
    /\ arg.fn = "group"
    /\ ret = NoCall
    /\ ret' = [fn |-> arg.fn, r |-> GroupByName(arg.records)]
    /\ UNCHANGED <<pc, batchVars, uploaded, sessionVars, grouped,
                   generated_doc, has_key, arg>>

CallSafeGenerate ==
    /\ arg.fn = "safe_generate_content"
    /\ ret = NoCall
    /\ ret' = [fn |-> arg.fn, r |-> safe_generate_content(arg.primary, arg.backup)]
    /\ UNCHANGED <<pc, batchVars, uploaded, sessionVars, grouped,
                   generated_doc, has_key, arg>>

\* create_word_report run twice on the same grouping; the models answer each
\* run on their own
CallReport ==
    /\ arg.fn = "create_word_report"
    /\ ret = NoCall
    /\ ret' = [fn |-> arg.fn,
               run1 |-> create_word_report(arg.grouped, arg.narr1),
               run2 |-> create_word_report(arg.grouped, arg.narr2)]
    /\ UNCHANGED <<pc, batchVars, uploaded, sessionVars, grouped,
                   generated_doc, has_key, arg>>

NextFn == CallAnalyze \/ CallFlatten \/ CallGroup \/ CallSafeGenerate \/ CallReport

SpecFn == InitFn /\ [][NextFn]_vars

\* ================================================================ claims
\* Ground truth about one attempt, read off the models' behaviour.
ParseableKinds == {"json", "fenced_json", "fenced"}

\* the text that reaches the parser in this attempt, if any
Replied(env) == env.primary.ok \/ env.backup.ok
ReplyKind(env) == IF env.primary.ok THEN env.primary.kind ELSE env.backup.kind

AttemptSucceeds(env) == Replied(env) /\ ReplyKind(env) \in ParseableKinds
\* the attempt fails with a rate limit: no model replied, the error that
\* surfaces is a rate limit
AttemptRateLimited(env) == ~Replied(env) /\ env.backup.kind = "RateLimited"
\* the attempt fails with another error
AttemptOtherError(env) == ~AttemptSucceeds(env) /\ ~AttemptRateLimited(env)

Analyzed == ret.fn = "analyze_single_image" /\ arg.can_open

\* ----------------------------------------------------------------- C1
\* C1: for the batch [img1, img2] in which both images show the child Amy,
\* the grouping built for the report lists Amy's records as [img1's record,
\* img2's record], whichever worker call completed first.
AmyOf(i) ==
    LET st == Data(i).students
        k == CHOOSE j \in DOMAIN st : st[j].name = "Amy"
    IN  RawRecord(Data(i).area, Data(i).headers, st[k])

C1_GroupedInSubmissionOrder ==
    (files = <<1, 2>> /\ Len(results) = 2 /\ pc = "idle" /\ grouped # <<>>)
        => \A k \in DOMAIN grouped :
              grouped[k].name = "Amy" => grouped[k].records = <<AmyOf(1), AmyOf(2)>>

\* ----------------------------------------------------------------- C2
\* C2: an image whose first and second attempts fail with a rate limit and
\* whose third attempt succeeds is a success of the call (so it is appended
\* to results, not to errors), after 3 attempts and exactly 2 backoff delays.
C2_Pre ==
    /\ Analyzed
    /\ AttemptRateLimited(arg.script[1])
    /\ AttemptRateLimited(arg.script[2])
    /\ AttemptSucceeds(arg.script[3])

C2_TwoRateLimitsThenSuccess ==
    C2_Pre => /\ ~ret.r.exception
              /\ ret.r.outcome.success
              /\ ret.r.outcome.data = Data(1)
              /\ ret.r.attempts = 3
              /\ Len(ret.r.delays) = 2
              /\ ret.r.trace = <<0, 2, 0, 4, 0>>

C2_Witness == C2_Pre /\ ret.r.outcome.success /\ Len(ret.r.delays) = 2

\* ----------------------------------------------------------------- C3
\* C3: an attempt that fails with an error other than a rate limit is the
\* only attempt of its image: no retry, no backoff delay, and the image is
\* reported as a failure.
C3_OtherErrorsNeverRetried ==
    (Analyzed /\ AttemptOtherError(arg.script[1]))
        => /\ ret.r.attempts = 1
           /\ ret.r.delays = <<>>
           /\ ~ret.r.outcome.success

\* ----------------------------------------------------------------- C4
\* C4: when every attempt is rate-limited the image is attempted 3 times (no
\* more) and reported as a failure; a delay lies between consecutive
\* attempts, 2s after the 1st and 4s after the 2nd, and the delays strictly
\* increase.
C4_Pre == Analyzed /\ \A k \in 1..max_retries : AttemptRateLimited(arg.script[k])

C4_ExhaustedRetries ==
    C4_Pre => /\ ret.r.attempts = 3
              /\ ~ret.r.exception
              /\ ~ret.r.outcome.success
              /\ Len(ret.r.trace) >= 5
              /\ SubSeq(ret.r.trace, 1, 5) = <<0, 2, 0, 4, 0>>
              /\ \A j, k \in DOMAIN ret.r.delays : j < k => ret.r.delays[j] < ret.r.delays[k]

C4_Witness == C4_Pre /\ ret.r.attempts = 3 /\ ~ret.r.outcome.success

\* ----------------------------------------------------------------- C5
\* C5: process_images_parallel never raises for a failure confined to one
\* image, and returns with len(results) + len(errors) = N.
C5_BatchAlwaysReturns ==
    /\ pc \notin {"unwinding", "raised"}
    /\ pc = "returned" => Len(results) + Len(errors) = total

\* ----------------------------------------------------------------- C6
\* C6: in a batch of 3 images where image 2 fails with an unparseable reply
\* and images 1 and 3 succeed, the call returns results holding exactly the
\* data of images 1 and 3 and errors holding exactly one entry, which names
\* image 2's file and contains its error message unchanged.
EndsWith(s, suffix) ==
    /\ Len(s) >= Len(suffix)
    /\ SubSeq(s, Len(s) - Len(suffix) + 1, Len(s)) = suffix

C6_Pre ==
    /\ pc = "returned"
    /\ Len(files) = 3
    /\ \A k \in {1, 3} : future[files[k]].outcome.success
    /\ ~future[files[2]].outcome.success
    /\ future[files[2]].cause = "InvalidResponse"

C6_PartialFailure ==
    C6_Pre => /\ \/ results = <<Data(files[1]), Data(files[3])>>
                 \/ results = <<Data(files[3]), Data(files[1])>>
              /\ Len(errors) = 1
              /\ errors[1][1] = FileName(files[2])
              /\ \E pos \in {"0", "429"} :
                    /\ future[files[2]].last_error = JsonErrorText(pos)
                    /\ EndsWith(errors[1], JsonErrorText(pos))

C6_Witness == C6_Pre /\ Len(errors) = 1 /\ Len(results) = 2

\* ----------------------------------------------------------------- C7
\* C7: at return every entry of errors and every entry of results can be
\* associated with the image it came from: it carries that image's file
\* name, or it stands at that image's place in submission order.
RECURSIVE Succeeded(_)
Succeeded(fs) ==
    IF fs = <<>> THEN <<>>
    ELSE IF future[Head(fs)].outcome.success
    THEN <<Head(fs)>> \o Succeeded(Tail(fs))
    ELSE Succeeded(Tail(fs))

C7_EntriesAssociable ==
    pc = "returned" =>
        /\ \A k \in DOMAIN errors :
              /\ errors[k][1].t = "file"
              /\ ~future[errors[k][1].v].outcome.success
              /\ EndsWith(errors[k], future[errors[k][1].v].outcome.error)
        /\ \A k \in DOMAIN results :
              \/ "file" \in DOMAIN results[k] /\ results[k].file = FileName(resSrc[k])
              \/ resSrc[k] = Succeeded(files)[k]

\* ----------------------------------------------------------------- C8
\* C8: the progress count is 0 when a batch starts, grows by exactly 1 with
\* each image the loop completes, never decreases during the batch, never
\* exceeds N, counts no image twice, and is N when the batch returns.
C8_Progress ==
    /\ [](/\ done <= total
          /\ done = Cardinality(collected)
          /\ collected \subseteq InBatch
          /\ pc = "returned" => done = total /\ collected = InBatch)
    /\ [][ /\ (pc # "collecting" /\ pc' = "collecting") => done' = 0
           /\ files' = files => done' >= done
           /\ (files' = files /\ collected' # collected)
                 => /\ done' = done + 1
                    /\ \E i \in InBatch \ collected :
                          fstate[i] = "finished" /\ collected' = collected \cup {i}
           /\ (files' = files /\ done' # done) => collected' # collected ]_vars

C8_Witness == pc = "returned" /\ total = 3 /\ done = 3 /\ Len(errors) >= 1

\* ----------------------------------------------------------------- C9
\* C9 as stated: with L <= 4 labels and S <= L scores a child gets exactly 4
\* indicator slots, the first S filled from the scores in order and the
\* other 4-S empty.
FlattenCase(k) ==
    /\ ret.fn = "flatten"
    /\ k \in DOMAIN Get(arg.res, "students", <<>>)
    /\ Len(Get(arg.res, "headers", <<"I1", "I2", "I3", "I4">>)) <= 4
    /\ Len(Get(arg.res.students[k], "scores", <<>>))
          <= Len(Get(arg.res, "headers", <<"I1", "I2", "I3", "I4">>))

ArgHeaders == Get(arg.res, "headers", <<"I1", "I2", "I3", "I4">>)
ArgScores(k) == Get(arg.res.students[k], "scores", <<>>)

C9_FourSlots ==
    \A k \in 1..2 : FlattenCase(k) =>
        LET d == ret.r.raw_records[k].details
        IN  /\ Len(d) = 4
            /\ \A j \in 1..4 :
                  d[j].score = IF j <= Len(ArgScores(k)) THEN ArgScores(k)[j] ELSE ""

\* C9 amended: the child gets exactly S indicator slots, one per score and
\* none for the other 4-S positions: the j-th pairs headers[j] with
\* scores[j]; the table row has one column per label among headers[1..S]
\* and no placeholder column.
C9_OneSlotPerScore ==
    \A k \in 1..2 : FlattenCase(k) =>
        LET d == ret.r.raw_records[k].details
            row == ret.r.all_data[k]
            S == Len(ArgScores(k))
        IN  /\ Len(ret.r.raw_records) = Len(arg.res.students)
            /\ Len(ret.r.all_data) = Len(arg.res.students)
            /\ Len(d) = S
            /\ \A j \in 1..S : d[j] = [idx |-> ArgHeaders[j], score |-> ArgScores(k)[j]]
            /\ DOMAIN row = FixedColumns \cup { ArgHeaders[j] : j \in 1..S }
            /\ \A j \in 1..S :
                  (/\ ArgHeaders[j] \notin FixedColumns
                   /\ \A m \in (j + 1)..S : ArgHeaders[m] # ArgHeaders[j])
                      => row[ArgHeaders[j]] = ArgScores(k)[j]

C9_Witness ==
    /\ FlattenCase(1)
    /\ Len(ArgHeaders) = 4
    /\ Len(ArgScores(1)) = 2
    /\ Len(ret.r.raw_records[1].details) = 2

\* ---------------------------------------------------------------- C10
\* C10: grouping is a stable group-by: the names are distinct and in
\* first-seen order, each name holds exactly the stored records with that
\* name in stored order, and every stored record's name has an entry.
FirstSeen(records, name) ==
    CHOOSE k \in DOMAIN records :
        /\ records[k].name = name
        /\ \A j \in 1..(k - 1) : records[j].name # name

WithName(records, name) == SelectSeq(records, LAMBDA r : r.name = name)

C10_StableGroupBy ==
    ret.fn = "group" =>
        LET g == ret.r
            rs == arg.records
        IN  /\ \A a, b \in DOMAIN g : a # b => g[a].name # g[b].name
            /\ { g[a].name : a \in DOMAIN g } = { rs[k].name : k \in DOMAIN rs }
            /\ \A a, b \in DOMAIN g :
                  a < b => FirstSeen(rs, g[a].name) < FirstSeen(rs, g[b].name)
            /\ \A a \in DOMAIN g : g[a].records = WithName(rs, g[a].name)

C10_Witness ==
    /\ ret.fn = "group"
    /\ Len(arg.records) = 3
    /\ arg.records[1].name = arg.records[3].name
    /\ arg.records[1].name # arg.records[2].name
    /\ arg.records[1] # arg.records[3]
    /\ Len(ret.r) = 2

\* ---------------------------------------------------------------- C11
\* the two runs of create_word_report have been made
Reported == ret.fn = "create_word_report"

\* the text the narrative writer receives for a child, if any model replied
NarrativeReply(env) == IF env.primary.ok THEN env.primary.val ELSE env.backup.val

\* the reply holds an object with an observation and a suggestion field
WellFormedReply(env) ==
    Replied(env) /\ \E j \in DOMAIN NarrativeReply(env) : NarrativeReply(env)[j].t = "comment"

\* C11: whenever, for a child, the model call fails, the reply is not JSON,
\* or the reply is JSON that is not an object with both an observation and a
\* suggestion field, create_word_report still completes and that child's
\* section carries the fixed default comment.
C11_NarrativeFailureNeverAborts ==
    Reported =>
        \A k \in DOMAIN arg.grouped :
            ~WellFormedReply(arg.narr1[k]) =>
                /\ ~ret.run1.raised
                /\ Len(ret.run1.doc) = Len(arg.grouped)
                /\ ret.run1.doc[k].observation = DefaultComment.observation
                /\ ret.run1.doc[k].suggestion = DefaultComment.suggestion

\* ---------------------------------------------------------------- C12
IsPrefix(s, t) == Len(s) <= Len(t) /\ \A k \in DOMAIN s : t[k] = s[k]

\* child name and learning area of every child on the given sheets, in order
RECURSIVE NameAreas(_)
NameAreas(rs) ==
    IF rs = <<>> THEN <<>>
    ELSE [k \in DOMAIN Head(rs).students |->
             <<Head(rs).students[k].name, Head(rs).area>>]
         \o NameAreas(Tail(rs))

\* the records a step appended to raw_records
Appended == SubSeq(raw_records', Len(raw_records) + 1, Len(raw_records'))

Output(run) == [raised |-> run.raised, doc |-> run.doc]

\* C13: producing the report from the grouped data is a pure, deterministic
\* transformation: it performs no remote model call, and two runs on
\* identical grouped input produce identical output.
C13_PureDeterministic ==
    Reported =>
        /\ ret.run1.calls = <<>>
        /\ ret.run2.calls = <<>>
        /\ Output(ret.run1) = Output(ret.run2)

\* a section without its two comment paragraphs
Layout(section) ==
    [page_break |-> section.page_break, name |-> section.name, rows |-> section.rows]

\* number of table rows the records of one child need
RECURSIVE RowCount(_)
RowCount(records) ==
    IF records = <<>> THEN 0
    ELSE 1 + Len(Head(records).details) + RowCount(Tail(records))

\* C13 (amended): create_word_report makes one narrative request per child it
\* reaches, each of one or two remote model calls, primary model first; the
\* sections of a completed run follow the grouped input (one per child, in
\* order, a page break before every child but the first, one table row per
\* area and per indicator), so two completed runs on identical grouped input
\* differ at most in the observation and suggestion paragraphs.
C13_DeterministicLayout ==
    Reported =>
        LET g == arg.grouped
            Shaped(run) ==
                /\ run.requests >= 1
                /\ run.requests <= Len(g)
                /\ Len(run.calls) >= run.requests
                /\ Len(run.calls) <= 2 * run.requests
                /\ run.calls[1] = "gemini-3.0-pro"
                /\ ~run.raised =>
                      /\ run.requests = Len(g)
                      /\ Len(run.doc) = Len(g)
                      /\ \A k \in DOMAIN g :
                            /\ run.doc[k].name = g[k].name
                            /\ run.doc[k].page_break = (k > 1)
                            /\ Len(run.doc[k].rows) = RowCount(g[k].records)
        IN  /\ Shaped(ret.run1)
            /\ Shaped(ret.run2)
            /\ (~ret.run1.raised /\ ~ret.run2.raised) =>
                  [k \in DOMAIN ret.run1.doc |-> Layout(ret.run1.doc[k])]
                     = [k \in DOMAIN ret.run2.doc |-> Layout(ret.run2.doc[k])]

\* two completed runs for two children whose documents differ
C13_Witness ==
    /\ Reported
    /\ Len(arg.grouped) = 2
    /\ ~ret.run1.raised
    /\ ~ret.run2.raised
    /\ ret.run1.doc # ret.run2.doc
    /\ Len(ret.run1.calls) = 2
    /\ Len(ret.run2.calls) = 4

\* the cases the bare except does cover: a failed call or a reply that is not
\* JSON gives the default comment
NarrativeDefaultOnException ==
    Reported =>
        \A k \in DOMAIN arg.grouped :
            (~ret.run1.raised /\ (~Replied(arg.narr1[k])
                                  \/ NarrativeReply(arg.narr1[k])[1].t = "junk")) =>
                /\ ret.run1.doc[k].observation = DefaultComment.observation
                /\ ret.run1.doc[k].suggestion = DefaultComment.suggestion

\* ---------------------------------------------------------------- C14
\* C14: when the API credential is absent the application halts at startup:
\* no batch dispatch, no remote model call and no report generation is
\* reachable in any run where GEMINI_API_KEY is not configured.
C14_HaltsWithoutKey ==
    ~has_key =>
        /\ pc \in {"idle", "stopped"}
        /\ uploaded = 0
        /\ files = <<>>
        /\ \A i \in FileIds : fstate[i] = "none" /\ future[i] = NoFuture
        /\ results = <<>> /\ errors = <<>>
        /\ raw_records = <<>> /\ class_df = <<>>
        /\ grouped = <<>>
        /\ generated_doc = NoDoc

\* the script has stopped at the key check
C14_Witness == ~has_key /\ pc = "stopped"

\* ---------------------------------------------------------------- C15
\* C15: at every moment of a batch at most 2 calls to analyze_single_image
\* are in flight, for any number of submitted images, and an image's call is
\* started at most once.
C15_TwoInFlight ==
    /\ [](Cardinality({ i \in FileIds : fstate[i] = "running" }) <= 2)
    /\ [][ \A i \in FileIds :
              /\ (fstate'[i] = "running" /\ fstate[i] # "running") => fstate[i] = "queued"
              /\ fstate[i] = "running" => fstate'[i] \in {"running", "finished"}
              /\ fstate[i] = "finished" => fstate'[i] \in {"finished", "none"}
              /\ (fstate'[i] = "queued" /\ fstate[i] # "queued") =>
                    fstate[i] = "none" /\ i > uploaded
         ]_vars

\* two calls in flight while a third image waits in the queue
C15_Witness ==
    /\ Cardinality(Running) = 2
    /\ \E i \in InBatch : fstate[i] = "queued"
    /\ Len(files) = 3

\* ---------------------------------------------------------------- C16
\* number of calls to the given model
CallsTo(calls, model) == Cardinality({ k \in DOMAIN calls : calls[k] = model })

\* C16: in safe_generate_content the primary model is always called first;
\* the backup model is called if and only if the primary call raised, at most
\* once per call; the function returns the primary's text when the primary
\* succeeds, the backup's text when only the backup succeeds, and raises only
\* when both calls fail.
C16_PrimaryThenBackup ==
    ret.fn = "safe_generate_content" =>
        LET r == ret.r
            p == arg.primary
            b == arg.backup
        IN  /\ r.calls[1] = "gemini-3.0-pro"
            /\ CallsTo(r.calls, "gemini-3.0-pro") = 1
            /\ CallsTo(r.calls, "gemini-1.5-flash") = IF p.ok THEN 0 ELSE 1
            /\ Len(r.calls) = IF p.ok THEN 1 ELSE 2
            /\ p.ok => ~r.raised /\ r.val = p.val
            /\ (~p.ok /\ b.ok) => ~r.raised /\ r.val = b.val
            /\ r.raised <=> (~p.ok /\ ~b.ok)

\* the primary raised and the backup's text was returned
C16_Witness ==
    /\ ret.fn = "safe_generate_content"
    /\ ~arg.primary.ok
    /\ arg.backup.ok
    /\ ret.r.calls = <<"gemini-3.0-pro", "gemini-1.5-flash">>
    /\ ret.r.val = arg.backup.val

\* ---------------------------------------------------------------- C17
\* the text of the error that reaches analyze_single_image in this failed
\* attempt contains "429": the backup model's error, or the parser's
Reaches429(env) ==
    IF Replied(env) THEN ReplyKind(env) = "junk429"
    ELSE env.backup.kind \in {"RateLimited", "Other429"}

\* the attempts the call made
Made == 1..ret.r.attempts

\* C17: whether a failed attempt is retried depends only on the text of the
\* error that reaches analyze_single_image containing "429"; for a remote
\* failure this is the backup model's error, so a rate limit reported by the
\* primary model alone never triggers a retry or a backoff delay (if the
\* backup succeeds the attempt succeeds, and if the backup fails with a
\* non-429 error the image fails immediately).
C17_RetryOnReaching429 ==
    Analyzed =>
        \A k \in Made :
            LET env == arg.script[k]
                failed == ~AttemptSucceeds(env)
                delayed == Len(ret.r.delays) >= k
                retried == ret.r.attempts > k
            IN  /\ delayed <=> (failed /\ Reaches429(env))
                /\ retried <=> (delayed /\ k < max_retries)
                /\ (env.primary.kind = "RateLimited" /\ AttemptSucceeds(env)) =>
                      /\ ret.r.attempts = k
                      /\ ret.r.outcome.success
                /\ (env.primary.kind = "RateLimited" /\ ~Replied(env)
                    /\ env.backup.kind = "Other") =>
                      /\ ret.r.attempts = k
                      /\ ~ret.r.outcome.success
                      /\ Len(ret.r.delays) = k - 1

\* the primary reports a rate limit, the backup another error: the image
\* fails after one attempt without a delay
C17_Witness ==
    /\ Analyzed
    /\ arg.script[1].primary.kind = "RateLimited"
    /\ ~arg.script[1].backup.ok
    /\ arg.script[1].backup.kind = "Other"
    /\ ret.r.attempts = 1
    /\ ret.r.delays = <<>>
    /\ ~ret.r.outcome.success

\* ---------------------------------------------------------------- C18
\* the attempts of the call that were rate-limited
RateLimitedAttempts == { k \in Made : AttemptRateLimited(arg.script[k]) }

\* C18: every rate-limited attempt is followed by a backoff delay, including
\* the third and last permitted attempt, so an image that exhausts its
\* retries has incurred 3 delays (2s, 4s, 6s) before it is reported as a
\* failure, and the number of delays for an image always equals its number
\* of rate-limited attempts.
C18_DelaysEqualRateLimited ==
    Analyzed =>
        /\ \A k \in RateLimitedAttempts :
              /\ Len(ret.r.delays) >= k
              /\ ret.r.delays[k] = 2 * k
        /\ RateLimitedAttempts = 1..max_retries =>
              /\ ret.r.delays = <<2, 4, 6>>
              /\ ret.r.trace = <<0, 2, 0, 4, 0, 6>>
              /\ ~ret.r.outcome.success
        /\ Len(ret.r.delays) = Cardinality(RateLimitedAttempts)

\* What the code does keep: a delay follows exactly the failed attempts whose
\* error text contains "429", the third included.
DelayAfterEvery429 ==
    Analyzed =>
        LET limited == { k \in Made : ~AttemptSucceeds(arg.script[k])
                                       /\ Reaches429(arg.script[k]) }
        IN  /\ RateLimitedAttempts \subseteq limited
            /\ \A k \in limited : Len(ret.r.delays) >= k /\ ret.r.delays[k] = 2 * k
            /\ Len(ret.r.delays) = Cardinality(limited)
            /\ RateLimitedAttempts = 1..max_retries =>
                  /\ ret.r.delays = <<2, 4, 6>>
                  /\ ret.r.trace = <<0, 2, 0, 4, 0, 6>>
                  /\ ~ret.r.exception
                  /\ ~ret.r.outcome.success

\* ---------------------------------------------------------------- C19
\* the calls of analyze_single_image on file i that end as the file's future
\* did
CallsEndingAs(i) == { x \in AnalyzeCalls[i] : x.future = future[i] }

Max(S) == CHOOSE m \in S : \A n \in S : n <= m

\* the most remote model calls the finished calls of the given files can
\* have made
RECURSIVE MostCalls(_)
MostCalls(fs) ==
    IF fs = <<>> THEN 0
    ELSE Max({ x.ncalls : x \in CallsEndingAs(Head(fs)) }) + MostCalls(Tail(fs))

\* C19: analyze_single_image terminates for every behaviour of the remote
\* models that itself returns or raises: it makes at most 3 attempts and
\* therefore at most 6 remote model calls (primary plus backup per attempt)
\* per image, and a batch of N images makes at most 6N remote calls before
\* process_images_parallel returns.
C19_BoundedCalls ==
    /\ \A i \in InBatch :
          /\ fstate[i] = "running" => AnalyzeReturns[i] # {}
          /\ fstate[i] = "finished" =>
                /\ CallsEndingAs(i) # {}
                /\ \A x \in CallsEndingAs(i) :
                      /\ x.attempts <= 3
                      /\ x.ncalls <= 6
                      /\ x.ncalls >= x.attempts
                      /\ x.ncalls <= 2 * x.attempts
    /\ pc \in {"returned", "raised"} =>
          /\ \A i \in InBatch : fstate[i] = "finished"
          /\ MostCalls(files) <= 6 * Len(files)

\* a batch of two images has returned, both after 3 attempts of 2 calls
C19_Witness ==
    /\ pc = "returned"
    /\ Len(files) = 2
    /\ \A i \in InBatch : \E x \in CallsEndingAs(i) : x.attempts = 3 /\ x.ncalls = 6
    /\ MostCalls(files) = 12

\* ---------------------------------------------------------------- C20
\* C20: the two session stores stay in lockstep: after any sequence of batch
\* uploads the number of rows in class_df equals the number of entries in
\* raw_records, and the i-th row and the i-th record describe the same child
\* name and learning area.
C20_StoresInLockstep ==
    /\ Len(class_df) = Len(raw_records)
    /\ \A i \in DOMAIN raw_records :
          /\ class_df[i]["child_name"] = raw_records[i].name
          /\ class_df[i]["area"] = raw_records[i].area

====
